---- MODULE Spec2Model ----
(***************************************************************************)
(* Matching and normalization engine of the playlist scripts:              *)
(*   src/add_unmatched_songs.py  parse_song_line, is_track_number,         *)
(*                               clean_for_search, generate_search_queries,*)
(*                               search_track, main                        *)
(*   src/music_manager.py        MusicManager.normalize_title,             *)
(*                               remove_duplicates_from_file,              *)
(*                               compare_and_remove_duplicates, main       *)
(* A Python str is a sequence of one-character strings.  The regular       *)
(* expressions of the source are modelled by what they do on the           *)
(* character classes \w, \s, \d, '.', '\n' and on the literal words.       *)
(***************************************************************************)
EXTENDS Integers, Sequences, FiniteSets, TLC

(***************************************************************************)
(* Bounds of the model.                                                    *)
(***************************************************************************)
MaxTextTokens == 4
MaxTitleTokens == 3
MaxArtistTokens == 5
MaxLineTokens == 7
MaxTrackTokens == 5
MaxLines == 3
MaxSongs == 2

(***************************************************************************)
(* Characters and the classes the regular expressions of the source use.   *)
(***************************************************************************)
LowerLetters ==
  {"a", "b", "c", "e", "f", "g", "h", "i", "k", "n", "r", "t", "u", "x", "y"}

UpperToLower ==
  [c \in {"A", "B", "F", "T", "X", "Y"} |->
     CASE c = "A" -> "a" [] c = "B" -> "b" [] c = "F" -> "f"
       [] c = "T" -> "t" [] c = "X" -> "x" [] c = "Y" -> "y"]

UpperLetters == DOMAIN UpperToLower

Digits == {"1", "2"}

\* \d of the re module
IsDigit(c) == c \in Digits

\* \w of the re module: letters, digits and the underscore
IsWord(c) == c \in LowerLetters \cup UpperLetters \cup Digits \cup {"_"}

\* \s of the re module, and the characters str.strip() removes
IsSpace(c) == c \in {" ", "\t", "\n"}

\* '.' of the re module (no DOTALL flag): any character but the newline
IsDot(c) == c # "\n"

\* str.lower() on one character
LowerChar(c) == IF c \in UpperLetters THEN UpperToLower[c] ELSE c

(***************************************************************************)
(* str methods.                                                            *)
(***************************************************************************)
\* str.lower()
Lower(s) == [i \in 1..Len(s) |-> LowerChar(s[i])]

\* s[i:] with a 1-based i
From(s, i) == SubSeq(s, i, Len(s))

\* s.startswith(p, i-1) with a 1-based i
StartsAt(s, p, i) ==
  /\ i >= 1
  /\ i + Len(p) - 1 <= Len(s)
  /\ SubSeq(s, i, i + Len(p) - 1) = p

\* s.find(p) + 1: the first position where p occurs in s, 0 when it does not
Find(s, p) ==
  IF \E i \in 1..Len(s) : StartsAt(s, p, i)
    THEN CHOOSE i \in 1..Len(s) :
           StartsAt(s, p, i) /\ \A j \in 1..(i - 1) : ~StartsAt(s, p, j)
    ELSE 0

\* p in s
Contains(s, p) == Find(s, p) # 0

RECURSIVE LStrip(_)
\* str.lstrip()
LStrip(s) ==
  IF s # <<>> /\ IsSpace(Head(s)) THEN LStrip(Tail(s)) ELSE s

RECURSIVE RStrip(_)
\* str.rstrip()
RStrip(s) ==
  IF s # <<>> /\ IsSpace(s[Len(s)]) THEN RStrip(SubSeq(s, 1, Len(s) - 1)) ELSE s

\* str.strip()
Strip(s) == RStrip(LStrip(s))

RECURSIVE SplitWords(_)
\* str.split() without argument: the maximal runs of non-whitespace
SplitWords(s) ==
  LET t == LStrip(s)
      RECURSIVE WordEnd(_)
      WordEnd(i) == IF i <= Len(t) /\ ~IsSpace(t[i]) THEN WordEnd(i + 1) ELSE i
  IN IF t = <<>> THEN <<>>
     ELSE <<SubSeq(t, 1, WordEnd(1) - 1)>> \o SplitWords(From(t, WordEnd(1)))

RECURSIVE Join(_, _)
\* sep.join(parts)
Join(sep, parts) ==
  IF parts = <<>> THEN <<>>
  ELSE IF Len(parts) = 1 THEN parts[1]
  ELSE parts[1] \o sep \o Join(sep, Tail(parts))

(***************************************************************************)
(* The substitutions of the source.                                        *)
(***************************************************************************)
\* re.sub(r'[^\w\s]', ' ', s)
SubNonWord(s) ==
  [i \in 1..Len(s) |-> IF IsWord(s[i]) \/ IsSpace(s[i]) THEN s[i] ELSE " "]

RECURSIVE SubSpaces(_)
\* re.sub(r'\s+', ' ', s): every maximal run of whitespace becomes one space
SubSpaces(s) ==
  IF s = <<>> THEN <<>>
  ELSE IF IsSpace(Head(s)) THEN <<" ">> \o SubSpaces(LStrip(s))
  ELSE <<Head(s)>> \o SubSpaces(Tail(s))

\* \b at the 1-based position i of s (between s[i-1] and s[i])
WordBoundary(s, i) ==
  LET before == i > 1 /\ i - 1 <= Len(s) /\ IsWord(s[i - 1])
      after == i >= 1 /\ i <= Len(s) /\ IsWord(s[i])
  IN before # after

\* the alternatives of (feat|featuring|ft|feat\.|featuring\.)
FeatMarkers ==
  { <<"f", "e", "a", "t">>,
    <<"f", "e", "a", "t", "u", "r", "i", "n", "g">>,
    <<"f", "t">>,
    <<"f", "e", "a", "t", ".">>,
    <<"f", "e", "a", "t", "u", "r", "i", "n", "g", ".">> }

\* .*$ from position i: '.' does not match a newline and '$' matches at the
\* end of the string or before a newline that ends it.  The position where
\* the match ends, 0 when there is none.
DotStarEnd(s, i) ==
  LET nl == {j \in i..Len(s) : ~IsDot(s[j])}
  IN IF nl = {} THEN Len(s) + 1
     ELSE IF nl = {Len(s)} THEN Len(s)
     ELSE 0

\* \b(feat|featuring|ft|feat\.|featuring\.)\b.*$ matches at position i
FeatMatchAt(s, i) ==
  /\ WordBoundary(s, i)
  /\ \E m \in FeatMarkers :
       /\ StartsAt(s, m, i)
       /\ WordBoundary(s, i + Len(m))
       /\ DotStarEnd(s, i + Len(m)) # 0

\* re.sub(r'\b(feat|featuring|ft|feat\.|featuring\.)\b.*$', '', s): the
\* leftmost match is removed; it runs to the end of the string (or to the
\* newline that ends it), so there is no second match
SubFeat(s) ==
  LET starts == {i \in 1..Len(s) : FeatMatchAt(s, i)}
  IN IF starts = {} THEN s
     ELSE LET i == CHOOSE k \in starts : \A j \in starts : k <= j
              m == CHOOSE w \in FeatMarkers :
                     /\ StartsAt(s, w, i)
                     /\ WordBoundary(s, i + Len(w))
                     /\ DotStarEnd(s, i + Len(w)) # 0
          IN SubSeq(s, 1, i - 1) \o From(s, DotStarEnd(s, i + Len(m)))

\* MusicManager.normalize_title
normalize_title(title) ==
  LET lowered == Lower(title)
      spaced == Strip(SubSpaces(SubNonWord(lowered)))
  IN SubFeat(spaced)

\* clean_for_search
clean_for_search(text) ==
  LET lowered == Lower(text)
      cut == SubFeat(lowered)
  IN Strip(SubSpaces(SubNonWord(cut)))

(***************************************************************************)
(* Inputs: texts assembled from a small vocabulary of words and separators.*)
(***************************************************************************)
RECURSIVE Flatten(_)
\* the text spelled by a sequence of vocabulary items
Flatten(items) ==
  IF items = <<>> THEN <<>> ELSE Head(items) \o Flatten(Tail(items))

\* every text of at most n items of the vocabulary
Texts(vocabulary, n) ==
  {Flatten(f) : f \in UNION {[1..k -> vocabulary] : k \in 0..n}}

w_x == <<"x">>
w_X == <<"X">>
w_y == <<"y">>
w_ft == <<"f", "t">>
w_feat == <<"f", "e", "a", "t">>
w_the == <<"t", "h", "e">>
w_by == <<"b", "y">>
w_By == <<"B", "y">>
w_track == <<"t", "r", "a", "c", "k">>
w_Track == <<"T", "r", "a", "c", "k">>
w_1 == <<"1">>
w_space == <<" ">>
w_newline == <<"\n">>
w_dot == <<".">>
w_underscore == <<"_">>

\* the separator between artist names
ArtistSeparator == <<" ", "_", " ">>

\* the delimiter between title and artists
ByDelimiter == <<" ", "b", "y", " ">>

TextVocabulary ==
  {w_x, w_X, w_ft, w_feat, w_space, w_newline, w_dot, w_underscore}

VARIABLES
  called,        \* the operations that have returned
  text,          \* SpecNorm: the argument of normalize_title, clean_for_search
  normalized,    \* normalize_title(text)
  renormalized,  \* normalize_title(normalize_title(text))
  cleaned,       \* clean_for_search(text)
  title,         \* SpecQuery, SpecTrack: the title argument
  artists,       \* SpecQuery: the artists argument
  queries,       \* generate_search_queries(title, artists)
  line,          \* SpecParse: the argument of parse_song_line
  parsed,        \* parse_song_line(line)
  placeholder,   \* SpecTrack: is_track_number(title)
  command,       \* SpecFile: the subcommand of music_manager.py
  file,          \* the content of the text file that is read
  playlist,      \* the entries of the playlist in the catalog
  playlist_titles,
  pos,           \* the number of the next line the loop reads
  seen,
  unique_lines,
  kept_lines,
  removed_count,
  written,       \* the content of the output file
  fpc,           \* where the subcommand is: "fetch", "read", "done"
  qi,            \* SpecDriver: the number of the query the loop is at
  track_id,      \* the result of the last search_track of the line
  sent,          \* the searches sent for the line: <<query, outcome>>
  found_tracks,
  not_found_tracks,
  add_at,        \* the i of the loop of add_tracks_to_playlist
  batches,       \* the chunks passed to playlist_add_items
  dpc,           \* where main is: "read", "search", "add", "write", ...
  matched,       \* the lines a search returned a track for: <<pos, id>>
  track_ids,     \* SpecBatch: the list passed to add_/remove_tracks_..
  tracks_to_remove  \* SpecRemove: the list get_tracks_to_remove builds

normVars == <<text, normalized, renormalized, cleaned>>

queryVars == <<title, artists, queries>>

parseVars == <<line, parsed, placeholder>>

fileVars ==
  <<command, file, playlist, playlist_titles, pos, seen, unique_lines,
    kept_lines, removed_count, written, fpc>>

driverVars ==
  <<qi, track_id, sent, found_tracks, not_found_tracks, add_at, batches, dpc,
    matched, track_ids, tracks_to_remove>>

vars == <<called, normVars, queryVars, parseVars, fileVars, driverVars>>

\* the variables of add_unmatched_songs.main, unused
DriverIdle ==
  /\ qi = 1 /\ track_id = "None" /\ sent = <<>> /\ found_tracks = <<>>
  /\ not_found_tracks = <<>> /\ add_at = 0 /\ batches = <<>> /\ dpc = ""
  /\ matched = <<>> /\ track_ids = <<>> /\ tracks_to_remove = <<>>

\* the variables of the file subcommands, unused
FileIdle ==
  /\ command = "" /\ file = <<>> /\ playlist = <<>> /\ playlist_titles = {}
  /\ pos = 1 /\ seen = {} /\ unique_lines = <<>> /\ kept_lines = <<>>
  /\ removed_count = 0 /\ written = <<>> /\ fpc = ""

(***************************************************************************)
(* SpecNorm: the two normalization functions applied to one text.          *)
(***************************************************************************)
InitNorm ==
  /\ called = {}
  /\ text \in Texts(TextVocabulary, MaxTextTokens)
  /\ normalized = <<>>
  /\ renormalized = <<>>
  /\ cleaned = <<>>
  /\ title = <<>> /\ artists = <<>> /\ queries = <<>>
  /\ line = <<>> /\ parsed = <<<<>>, <<>>>> /\ placeholder = FALSE
  /\ FileIdle /\ DriverIdle

NormalizeTitle ==
  /\ "normalize_title" \notin called
  /\ normalized' = normalize_title(text)
  /\ called' = called \cup {"normalize_title"}
  /\ UNCHANGED <<text, renormalized, cleaned>>
  /\ UNCHANGED <<queryVars, parseVars, fileVars, driverVars>>

NormalizeTitleAgain ==
  /\ "normalize_title" \in called
  /\ "normalize_title twice" \notin called
  /\ renormalized' = normalize_title(normalized)
  /\ called' = called \cup {"normalize_title twice"}
  /\ UNCHANGED <<text, normalized, cleaned>>
  /\ UNCHANGED <<queryVars, parseVars, fileVars, driverVars>>

CleanForSearch ==
  /\ "clean_for_search" \notin called
  /\ cleaned' = clean_for_search(text)
  /\ called' = called \cup {"clean_for_search"}
  /\ UNCHANGED <<text, normalized, renormalized>>
  /\ UNCHANGED <<queryVars, parseVars, fileVars, driverVars>>

NextNorm == NormalizeTitle \/ NormalizeTitleAgain \/ CleanForSearch

SpecNorm == InitNorm /\ [][NextNorm]_vars

\* no leading, trailing or doubled whitespace
Trimmed(s) ==
  /\ s # <<>> => ~IsSpace(s[1]) /\ ~IsSpace(s[Len(s)])
  /\ \A i \in 1..(Len(s) - 1) : ~(IsSpace(s[i]) /\ IsSpace(s[i + 1]))

\* C1: normalize_title is idempotent: normalizing a normalized title
\* returns it unchanged, also when a featuring marker follows other words.
C1_Idempotent ==
  "normalize_title twice" \in called => renormalized = normalized

\* C2: normalize_title and clean_for_search return the same result for every
\* text, and that result has no leading, trailing or doubled whitespace.
C2_SameNormalization ==
  {"normalize_title", "clean_for_search"} \subseteq called =>
    /\ normalized = cleaned
    /\ Trimmed(normalized)
    /\ Trimmed(cleaned)

(***************************************************************************)
(* generate_search_queries.                                                *)
(***************************************************************************)
\* s.split(sep)[0]: the text before the first occurrence of sep
BeforeFirst(s, sep) ==
  IF Contains(s, sep) THEN SubSeq(s, 1, Find(s, sep) - 1) ELSE s

RECURSIVE Split(_, _)
\* s.split(sep) with a non-empty separator
Split(s, sep) ==
  IF Contains(s, sep)
    THEN <<BeforeFirst(s, sep)>> \o Split(From(s, Find(s, sep) + Len(sep)), sep)
    ELSE <<s>>

\* the words the title filter drops: {'the', 'a', 'an'}
Articles == {<<"t", "h", "e">>, <<"a">>, <<"a", "n">>}

\* [w for w in title_words if w not in {'the', 'a', 'an'}]
FilterArticles(title_words) == SelectSeq(title_words, LAMBDA w : w \notin Articles)

\* the threshold of len(title_words) > 2
MinFilterWords == 2

\* generate_search_queries
generate_search_queries(t, a) ==
  LET clean_title == clean_for_search(t)
      clean_artists == clean_for_search(a)
      basic == <<clean_title \o <<" ">> \o clean_artists, clean_title>>
      first_artist == BeforeFirst(clean_artists, ArtistSeparator)
      single == IF Contains(clean_artists, ArtistSeparator)
                  THEN <<clean_title \o <<" ">> \o first_artist>>
                  ELSE <<>>
      title_words == SplitWords(clean_title)
      filtered_words == FilterArticles(title_words)
      filtered == IF Len(title_words) > MinFilterWords /\ filtered_words # <<>>
                    THEN <<Join(<<" ">>, filtered_words) \o <<" ">> \o clean_artists>>
                    ELSE <<>>
  IN basic \o single \o filtered

(***************************************************************************)
(* SpecQuery: generate_search_queries applied to one title and artists.    *)
(***************************************************************************)
TitleVocabulary == {w_x, w_the, w_space \o w_x, w_space \o w_the}

ArtistVocabulary == {w_x, w_ft, w_space, w_dot, w_underscore}

\* titles and artists as main passes them: the stripped parts of a non-blank,
\* stripped line, so the title is not empty
SongTitles ==
  {t \in Texts(TitleVocabulary, MaxTitleTokens) : t # <<>> /\ Strip(t) = t}

SongArtists == {a \in Texts(ArtistVocabulary, MaxArtistTokens) : Strip(a) = a}

InitQuery ==
  /\ called = {}
  /\ title \in SongTitles
  /\ artists \in SongArtists
  /\ queries = <<>>
  /\ text = <<>> /\ normalized = <<>> /\ renormalized = <<>> /\ cleaned = <<>>
  /\ line = <<>> /\ parsed = <<<<>>, <<>>>> /\ placeholder = FALSE
  /\ FileIdle /\ DriverIdle

GenerateSearchQueries ==
  /\ "generate_search_queries" \notin called
  /\ queries' = generate_search_queries(title, artists)
  /\ called' = called \cup {"generate_search_queries"}
  /\ UNCHANGED <<title, artists>>
  /\ UNCHANGED <<normVars, parseVars, fileVars, driverVars>>

NextQuery == GenerateSearchQueries

SpecQuery == InitQuery /\ [][NextQuery]_vars

\* C3: generate_search_queries never returns the same query string twice.
C3_NoDuplicateQuery ==
  "generate_search_queries" \in called =>
    \A i, j \in 1..Len(queries) : queries[i] = queries[j] => i = j

\* the artist names of an artists text: the parts between ' _ ' separators
ArtistNames(a) == Split(a, ArtistSeparator)

\* the artist names cleaned one by one and joined by single spaces
CleanedArtistNames(a) ==
  Join(<<" ">>, [i \in 1..Len(ArtistNames(a)) |-> clean_for_search(ArtistNames(a)[i])])

\* C4: the first query is the cleaned title, a space and the individually
\* cleaned artist names joined by single spaces; the second query is the
\* cleaned title.  (That the separator and a featuring marker inside one
\* name leave the later names in place follows from the first equation.)
C4_BaselineQueries ==
  "generate_search_queries" \in called =>
    /\ Len(queries) >= 2
    /\ queries[1] = clean_for_search(title) \o <<" ">> \o CleanedArtistNames(artists)
    /\ queries[2] = clean_for_search(title)

\* the title has more than 2 words and a word survives the article filter
VariantCondition(t) ==
  LET words == SplitWords(clean_for_search(t))
  IN Len(words) > 2 /\ \E i \in 1..Len(words) : words[i] \notin Articles

\* the title words without articles, joined by single spaces, then the
\* cleaned artists text
ArticleVariant(t, a) ==
  LET words == SplitWords(clean_for_search(t))
  IN Join(<<" ">>, SelectSeq(words, LAMBDA w : w \notin Articles))
       \o <<" ">> \o clean_for_search(a)

\* the artists text names a single artist: it holds no ' _ ' separator
SingleArtist(a) == ~Contains(a, ArtistSeparator)

\* C5: the article-removed variant is added exactly when the cleaned title
\* has more than 2 words and a word survives the filter; it comes after the
\* two baseline queries; without it, and with a single artist, the result is
\* the two baseline queries only.
C5_ArticleVariant ==
  "generate_search_queries" \in called =>
    /\ VariantCondition(title) =>
         /\ Len(queries) \in {3, 4}
         /\ queries[Len(queries)] = ArticleVariant(title, artists)
         /\ SingleArtist(artists) => Len(queries) = 3
    /\ ~VariantCondition(title) =>
         /\ Len(queries) \in {2, 3}
         /\ SingleArtist(artists) => Len(queries) = 2

(***************************************************************************)
(* parse_song_line and is_track_number.                                    *)
(***************************************************************************)
\* parse_song_line: the pair (title, artists)
parse_song_line(l) ==
  IF ~Contains(l, ByDelimiter)
    THEN <<l, <<>>>>
    ELSE LET at == Find(l, ByDelimiter)
         IN <<Strip(SubSeq(l, 1, at - 1)), Strip(From(l, at + Len(ByDelimiter)))>>

\* '$' at position i of s: the end of s, or before a newline that ends s
AtEnd(s, i) == i = Len(s) + 1 \/ (i = Len(s) /\ s[i] = "\n")

\* a faulty variant of TrackPatternMatch: the pattern without its final '$'
TrackPatternNoEnd(s) == StartsAt(s, w_track, 1)

\* re.match(r'^track(?:\s+\d+)?$', s)
TrackPatternMatch(s) ==
  /\ StartsAt(s, w_track, 1)
  /\ \/ AtEnd(s, Len(w_track) + 1)
     \/ \E j, k \in (Len(w_track) + 1)..Len(s) :
          /\ j < k
          /\ \A i \in (Len(w_track) + 1)..j : IsSpace(s[i])
          /\ \A i \in (j + 1)..k : IsDigit(s[i])
          /\ AtEnd(s, k + 1)

\* is_track_number
is_track_number(t) ==
  LET clean_title == Strip(SubSpaces(SubNonWord(Lower(t))))
  IN TrackPatternMatch(clean_title)

(***************************************************************************)
(* SpecParse: parse_song_line applied to one line.                         *)
(***************************************************************************)
LineVocabulary == {w_x, w_space, w_by, w_By}

InitParse ==
  /\ called = {}
  /\ line \in Texts(LineVocabulary, MaxLineTokens)
  /\ parsed = <<<<>>, <<>>>>
  /\ placeholder = FALSE
  /\ text = <<>> /\ normalized = <<>> /\ renormalized = <<>> /\ cleaned = <<>>
  /\ title = <<>> /\ artists = <<>> /\ queries = <<>>
  /\ FileIdle /\ DriverIdle

ParseSongLine ==
  /\ "parse_song_line" \notin called
  /\ parsed' = parse_song_line(line)
  /\ called' = called \cup {"parse_song_line"}
  /\ UNCHANGED <<line, placeholder>>
  /\ UNCHANGED <<normVars, queryVars, fileVars, driverVars>>

NextParse == ParseSongLine

SpecParse == InitParse /\ [][NextParse]_vars

\* s has no leading and no trailing whitespace
NoSurroundingSpace(s) == s # <<>> => ~IsSpace(s[1]) /\ ~IsSpace(s[Len(s)])

\* C7: parse_song_line splits at the first ' by ' only; the returned title
\* and artists text have no surrounding whitespace; without the delimiter
\* the title is the whole trimmed line and the artists are empty; with the
\* delimiter and no artist text the artists are empty.
C7_ParseSongLine ==
  "parse_song_line" \in called =>
    /\ NoSurroundingSpace(parsed[1])
    /\ NoSurroundingSpace(parsed[2])
    /\ ~Contains(line, ByDelimiter) =>
         parsed = <<Strip(line), <<>>>>
    /\ Contains(line, ByDelimiter) =>
         \E i \in 1..Len(line) :
           /\ StartsAt(line, ByDelimiter, i)
           /\ \A j \in 1..(i - 1) : ~StartsAt(line, ByDelimiter, j)
           /\ parsed[1] = Strip(SubSeq(line, 1, i - 1))
           /\ parsed[2] = Strip(From(line, i + 4))
           /\ (\A k \in (i + 4)..Len(line) : IsSpace(line[k])) => parsed[2] = <<>>

(***************************************************************************)
(* SpecTrack: is_track_number applied to one title.                        *)
(***************************************************************************)
TrackVocabulary == {w_track, w_Track, w_x, w_1, w_space, w_dot, w_underscore}

InitTrack ==
  /\ called = {}
  /\ title \in Texts(TrackVocabulary, MaxTrackTokens)
  /\ placeholder = FALSE
  /\ text = <<>> /\ normalized = <<>> /\ renormalized = <<>> /\ cleaned = <<>>
  /\ artists = <<>> /\ queries = <<>>
  /\ line = <<>> /\ parsed = <<<<>>, <<>>>>
  /\ FileIdle /\ DriverIdle

IsTrackNumber ==
  /\ "is_track_number" \notin called
  /\ placeholder' = is_track_number(title)
  /\ called' = called \cup {"is_track_number"}
  /\ UNCHANGED <<line, parsed>>
  /\ UNCHANGED <<normVars, queryVars, fileVars, driverVars>>

NextTrack == IsTrackNumber

SpecTrack == InitTrack /\ [][NextTrack]_vars

\* the words of a title once it is lowercased and its punctuation (every
\* character that is neither a word character nor whitespace) is a space
TitleWords(t) ==
  SplitWords([i \in 1..Len(t) |->
                IF IsWord(t[i]) \/ IsSpace(t[i]) THEN LowerChar(t[i]) ELSE " "])

\* a non-empty run of digits
AllDigits(w) == w # <<>> /\ \A i \in 1..Len(w) : w[i] \in Digits

\* C8: is_track_number(title) is true exactly when the cleaned title is the
\* word 'track' alone or 'track' followed by whitespace and digits only; any
\* other word before or after makes it false.
C8_IsTrackNumber ==
  "is_track_number" \in called =>
    (placeholder <=>
       \/ TitleWords(title) = <<w_track>>
       \/ /\ Len(TitleWords(title)) = 2
          /\ TitleWords(title)[1] = w_track
          /\ AllDigits(TitleWords(title)[2]))

\* is_track_number has answered for 'Track 1', for 'Track x' and for 'Track 1 x'
C8_Witness ==
  /\ "is_track_number" \in called
  /\ \/ title = w_Track \o w_space \o w_1 \o w_space \o w_x /\ ~placeholder
     \/ title = w_Track \o w_dot \o w_1 /\ placeholder

(***************************************************************************)
(* music_manager.py: the text file and the two subcommands that rewrite it.*)
(***************************************************************************)
RECURSIVE ReadLines(_)
\* for line in f: the lines of a text, each with the newline that ends it
ReadLines(t) ==
  IF t = <<>> THEN <<>>
  ELSE IF ~Contains(t, w_newline) THEN <<t>>
  ELSE <<SubSeq(t, 1, Find(t, w_newline))>> \o ReadLines(From(t, Find(t, w_newline) + 1))

RECURSIVE RStripNewline(_)
\* line.rstrip('\n')
RStripNewline(s) ==
  IF s # <<>> /\ s[Len(s)] = "\n" THEN RStripNewline(SubSeq(s, 1, Len(s) - 1)) ELSE s

\* f.write('\n'.join(lines)); if lines: f.write('\n')
WriteLines(lines) ==
  Join(w_newline, lines) \o (IF lines # <<>> THEN w_newline ELSE <<>>)

\* f"{title} by {' _ '.join(artists)}"
FullTitle(name, names) == name \o ByDelimiter \o Join(ArtistSeparator, names)

\* MusicManager.get_playlist_titles: entries without a track are skipped
get_playlist_titles(tracks) ==
  {normalize_title(FullTitle(tracks[i].name, tracks[i].artists)) :
     i \in {k \in 1..Len(tracks) : tracks[k].track}}

\* if normalized_line not in seen
RemoveDuplicatesIsNew(normalized_line, seen_keys) == normalized_line \notin seen_keys

\* a faulty variant of RemoveDuplicatesLine: the line itself is the key, seen
\* holds lines that were not normalized
RemoveDuplicatesLineRawKey(raw, seen_keys, uniques) ==
  LET l == RStripNewline(raw)
  IN IF RemoveDuplicatesIsNew(l, seen_keys)
       THEN <<seen_keys \cup {l}, Append(uniques, l)>>
       ELSE <<seen_keys, uniques>>

\* the body of the loop of remove_duplicates_from_file on one line of the
\* file: the new <<seen, unique_lines>>
RemoveDuplicatesLine(raw, seen_keys, uniques) ==
  LET l == RStripNewline(raw)
      normalized_line == normalize_title(l)
  IN IF RemoveDuplicatesIsNew(normalized_line, seen_keys)
       THEN <<seen_keys \cup {normalized_line}, Append(uniques, l)>>
       ELSE <<seen_keys, uniques>>

\* a faulty variant of CompareLine: removed_count += 1 for a blank line too
CompareLineCountingBlank(raw, titles, kept, removed) ==
  LET l == Strip(raw)
  IN IF l = <<>> THEN <<kept, removed + 1>>
     ELSE IF normalize_title(l) \notin titles
       THEN <<Append(kept, l), removed>>
       ELSE <<kept, removed + 1>>

\* the body of the loop of compare_and_remove_duplicates on one line of the
\* file: the new <<kept_lines, removed_count>>
CompareLine(raw, titles, kept, removed) ==
  LET l == Strip(raw)
  IN IF l = <<>> THEN <<kept, removed>>
     ELSE IF normalize_title(l) \notin titles
       THEN <<Append(kept, l), removed>>
       ELSE <<kept, removed + 1>>

(***************************************************************************)
(* SpecFile: one run of remove-duplicates or of compare-playlist.          *)
(***************************************************************************)
FileLineChoices ==
  { w_x \o ByDelimiter \o w_y \o w_dot,
    w_X \o ByDelimiter \o <<"Y", "-">>,
    w_space \o w_x \o ByDelimiter \o w_y,
    w_x,
    <<>>,
    w_space,
    w_x \o w_space \o w_ft \o w_space \o w_y }

\* the text files of at most MaxLines lines, with or without a final newline
Files ==
  UNION { {Join(w_newline, ls), Join(w_newline, ls) \o w_newline} :
            ls \in UNION {[1..k -> FileLineChoices] : k \in 0..MaxLines} }

NoTrack == [track |-> FALSE, name |-> <<>>, artists |-> <<>>]

TrackXY == [track |-> TRUE, name |-> w_X, artists |-> <<<<"Y">>>>]

TrackXftY ==
  [track |-> TRUE, name |-> w_x \o w_space \o w_ft \o w_space \o w_y,
   artists |-> <<w_y, w_x>>]

Playlists == {<<>>, <<TrackXY>>, <<NoTrack, TrackXftY>>, <<TrackXY, TrackXftY>>}

InitFile ==
  /\ called = {}
  /\ text = <<>> /\ normalized = <<>> /\ renormalized = <<>> /\ cleaned = <<>>
  /\ title = <<>> /\ artists = <<>> /\ queries = <<>>
  /\ line = <<>> /\ parsed = <<<<>>, <<>>>> /\ placeholder = FALSE
  /\ command \in {"remove-duplicates", "compare-playlist"}
  /\ file \in Files
  /\ playlist \in (IF command = "compare-playlist" THEN Playlists ELSE {<<>>})
  /\ fpc = (IF command = "compare-playlist" THEN "fetch" ELSE "read")
  /\ playlist_titles = {}
  /\ pos = 1
  /\ seen = {}
  /\ unique_lines = <<>>
  /\ kept_lines = <<>>
  /\ removed_count = 0
  /\ written = <<>>
  /\ DriverIdle

notFileVars == <<called, normVars, queryVars, parseVars, driverVars>>

\* remove_duplicates_from_file: one iteration of the loop over the file
RemoveDuplicatesReadLine ==
  /\ command = "remove-duplicates" /\ fpc = "read"
  /\ pos <= Len(ReadLines(file))
  /\ LET r == RemoveDuplicatesLine(ReadLines(file)[pos], seen, unique_lines)
     IN seen' = r[1] /\ unique_lines' = r[2]
  /\ pos' = pos + 1
  /\ UNCHANGED <<command, file, playlist, playlist_titles, kept_lines,
                 removed_count, written, fpc>>
  /\ UNCHANGED notFileVars

\* remove_duplicates_from_file: the file is read, the output is written
RemoveDuplicatesWrite ==
  /\ command = "remove-duplicates" /\ fpc = "read"
  /\ pos > Len(ReadLines(file))
  /\ written' = WriteLines(unique_lines)
  /\ fpc' = "done"
  /\ UNCHANGED <<command, file, playlist, playlist_titles, pos, seen,
                 unique_lines, kept_lines, removed_count>>
  /\ UNCHANGED notFileVars

\* compare_and_remove_duplicates: playlist_titles = get_playlist_titles(..)
CompareFetchTitles ==
  /\ command = "compare-playlist" /\ fpc = "fetch"
  /\ playlist_titles' = get_playlist_titles(playlist)
  /\ fpc' = "read"
  /\ UNCHANGED <<command, file, playlist, pos, seen, unique_lines, kept_lines,
                 removed_count, written>>
  /\ UNCHANGED notFileVars

\* compare_and_remove_duplicates: one iteration of the loop over the file
CompareReadLine ==
  /\ command = "compare-playlist" /\ fpc = "read"
  /\ pos <= Len(ReadLines(file))
  /\ LET r == CompareLine(ReadLines(file)[pos], playlist_titles, kept_lines,
                          removed_count)
     IN kept_lines' = r[1] /\ removed_count' = r[2]
  /\ pos' = pos + 1
  /\ UNCHANGED <<command, file, playlist, playlist_titles, seen, unique_lines,
                 written, fpc>>
  /\ UNCHANGED notFileVars

\* compare_and_remove_duplicates: the file is read, the kept lines are written
CompareWrite ==
  /\ command = "compare-playlist" /\ fpc = "read"
  /\ pos > Len(ReadLines(file))
  /\ written' = WriteLines(kept_lines)
  /\ fpc' = "done"
  /\ UNCHANGED <<command, file, playlist, playlist_titles, pos, seen,
                 unique_lines, kept_lines, removed_count>>
  /\ UNCHANGED notFileVars

NextFile ==
  \/ RemoveDuplicatesReadLine
  \/ RemoveDuplicatesWrite
  \/ CompareFetchTitles
  \/ CompareReadLine
  \/ CompareWrite

SpecFile == InitFile /\ [][NextFile]_vars

\* the lines of a text, without the newline that ends each
TextLines(t) == [i \in 1..Len(ReadLines(t)) |-> RStripNewline(ReadLines(t)[i])]

RECURSIVE LinesAt(_, _, _)
\* the lines ls[i] for the i <= n of the set I, in the order of ls
LinesAt(ls, I, n) ==
  IF n = 0 THEN <<>>
  ELSE LinesAt(ls, I, n - 1) \o (IF n \in I THEN <<ls[n]>> ELSE <<>>)

\* a character that is neither a word character nor whitespace
IsPunctuation(c) == ~IsWord(c) /\ ~IsSpace(c)

\* two lines differ only in the case of letters or in which punctuation
\* character stands at a place
DifferOnlyInCaseOrPunctuation(a, b) ==
  /\ Len(a) = Len(b)
  /\ \A i \in 1..Len(a) :
       \/ LowerChar(a[i]) = LowerChar(b[i])
       \/ IsPunctuation(a[i]) /\ IsPunctuation(b[i])

None == "None"

TrackIds == {"t1", "t2"}

\* what sp.search(query, limit=1, type='track') does: it returns a track, it
\* returns no item, or it raises
SearchOutcomes ==
  {[kind |-> "items", id |-> t] : t \in TrackIds}
    \cup {[kind |-> "empty", id |-> None], [kind |-> "error", id |-> None]}

\* search_track: the id of the first item, None without items and None when
\* the search raises (the exception is caught and printed)
search_track(outcome) == IF outcome.kind = "items" THEN outcome.id ELSE None

\* a faulty variant of LineFound: a line counts as not found whatever the
\* search returned
LineNeverFound(id) == FALSE

\* if track_id: (after the loop over the queries)
LineFound(id) == id # None

\* a faulty variant of QueryLoopBreaks: the loop goes on after a hit
QueryLoopNeverBreaks(id) == FALSE

\* if track_id: break
QueryLoopBreaks(id) == id # None

\* chunk_size of add_tracks_to_playlist
ChunkSize == 100

\* a faulty variant of Chunk: the slice stops one item early
ChunkOneShort(ids, i) ==
  SubSeq(ids, i + 1,
         (IF i + ChunkSize < Len(ids) THEN i + ChunkSize ELSE Len(ids)) - 1)

\* track_ids[i:i + chunk_size] with the 0-based i of the source
Chunk(ids, i) ==
  SubSeq(ids, i + 1,
         IF i + ChunkSize < Len(ids) THEN i + ChunkSize ELSE Len(ids))

\* chunk_size of remove_tracks_from_playlist
RemoveChunkSize == 100

\* track_ids[i:i + chunk_size] of remove_tracks_from_playlist
RemoveChunk(ids, i) ==
  SubSeq(ids, i + 1,
         IF i + RemoveChunkSize < Len(ids) THEN i + RemoveChunkSize ELSE Len(ids))

(***************************************************************************)
(* SpecDriver: one run of add_unmatched_songs.main on a text file.         *)
(***************************************************************************)
SongLineChoices ==
  { w_x \o ByDelimiter \o w_y,
    w_Track \o w_space \o w_1,
    w_space,
    w_the \o w_space \o w_x \o w_space \o w_x \o ByDelimiter
      \o w_y \o ArtistSeparator \o w_x,
    w_track \o w_dot \o ByDelimiter \o w_y,
    w_space \o w_y \o w_space }

\* the text files of at most MaxSongs lines
SongFiles ==
  {WriteLines(ls) : ls \in UNION {[1..k -> SongLineChoices] : k \in 0..MaxSongs}}

InitDriver ==
  /\ called = {}
  /\ text = <<>> /\ normalized = <<>> /\ renormalized = <<>> /\ cleaned = <<>>
  /\ parsed = <<<<>>, <<>>>> /\ placeholder = FALSE
  /\ command = "" /\ playlist = <<>> /\ playlist_titles = {}
  /\ seen = {} /\ unique_lines = <<>> /\ kept_lines = <<>>
  /\ removed_count = 0 /\ fpc = ""
  /\ file \in SongFiles
  /\ pos = 1
  /\ line = <<>> /\ title = <<>> /\ artists = <<>> /\ queries = <<>>
  /\ qi = 1
  /\ track_id = None
  /\ sent = <<>>
  /\ found_tracks = <<>>
  /\ not_found_tracks = <<>>
  /\ add_at = 0
  /\ batches = <<>>
  /\ written = file
  /\ dpc = "read"
  /\ matched = <<>>
  /\ track_ids = <<>> /\ tracks_to_remove = <<>>

notDriverVars ==
  <<called, normVars, parsed, placeholder, command, playlist, playlist_titles,
    seen, unique_lines, kept_lines, removed_count, fpc, track_ids,
    tracks_to_remove>>

\* main: the next line of the file, up to the loop over its queries
ReadSongLine ==
  /\ dpc = "read"
  /\ pos <= Len(ReadLines(file))
  /\ LET l == Strip(ReadLines(file)[pos])
         p == parse_song_line(l)
     IN IF l = <<>> \/ is_track_number(p[1])
          THEN /\ pos' = pos + 1
               /\ UNCHANGED <<line, title, artists, queries, qi, track_id, sent, dpc>>
          ELSE /\ line' = l
               /\ title' = p[1]
               /\ artists' = p[2]
               /\ queries' = generate_search_queries(p[1], p[2])
               /\ qi' = 1
               /\ track_id' = None
               /\ sent' = <<>>
               /\ dpc' = "search"
               /\ pos' = pos
  /\ UNCHANGED <<file, written, found_tracks, not_found_tracks, add_at, batches,
                 matched>>
  /\ UNCHANGED notDriverVars

\* main: one pass of the loop over the queries, and what follows the loop
\* once it ends
SearchTrack ==
  /\ dpc = "search"
  /\ qi <= Len(queries)
  /\ \E outcome \in SearchOutcomes :
       LET id == search_track(outcome)
       IN /\ sent' = Append(sent, <<queries[qi], outcome.kind>>)
          /\ track_id' = id
          /\ matched' = (IF outcome.kind = "items"
                           THEN Append(matched, <<pos, outcome.id>>)
                           ELSE matched)
          /\ IF QueryLoopBreaks(id) \/ qi = Len(queries)
               THEN /\ IF LineFound(id)
                         THEN /\ found_tracks' = Append(found_tracks, id)
                              /\ UNCHANGED not_found_tracks
                         ELSE /\ not_found_tracks' = Append(not_found_tracks, line)
                              /\ UNCHANGED found_tracks
                    /\ pos' = pos + 1
                    /\ dpc' = "read"
                    /\ UNCHANGED qi
               ELSE /\ qi' = qi + 1
                    /\ UNCHANGED <<found_tracks, not_found_tracks, pos, dpc>>
  /\ UNCHANGED <<file, written, line, title, artists, queries, add_at, batches>>
  /\ UNCHANGED notDriverVars

\* add_tracks_to_playlist: one sp.playlist_add_items call; when it raises,
\* main prints the error and exits
AddChunk ==
  /\ dpc = "read"
  /\ pos > Len(ReadLines(file))
  /\ add_at < Len(found_tracks)
  /\ \E raises \in BOOLEAN :
       IF raises
         THEN dpc' = "failed" /\ UNCHANGED <<batches, add_at>>
         ELSE /\ batches' = Append(batches, Chunk(found_tracks, add_at))
              /\ add_at' = add_at + ChunkSize
              /\ UNCHANGED dpc
  /\ UNCHANGED <<file, written, pos, line, title, artists, queries, qi, track_id,
                 sent, found_tracks, not_found_tracks, matched>>
  /\ UNCHANGED notDriverVars

\* main: the lines that were not found are written back to the file
WriteNotFound ==
  /\ dpc = "read"
  /\ pos > Len(ReadLines(file))
  /\ add_at >= Len(found_tracks)
  /\ written' = WriteLines(not_found_tracks)
  /\ dpc' = "done"
  /\ UNCHANGED <<file, pos, line, title, artists, queries, qi, track_id, sent,
                 found_tracks, not_found_tracks, add_at, batches, matched>>
  /\ UNCHANGED notDriverVars

NextDriver == ReadSongLine \/ SearchTrack \/ AddChunk \/ WriteNotFound

SpecDriver == InitDriver /\ [][NextDriver]_vars

\* C6: the queries of a line are sent in list order; none is sent after a
\* query that returned a track; a query is sent only after all earlier ones
\* returned nothing; a search that raised counts as no match, so the loop is
\* then still at the next query.
C6_FirstHitStops ==
  /\ Len(sent) <= Len(queries)
  /\ \A i \in 1..Len(sent) : sent[i][1] = queries[i]
  /\ \A i \in 1..(Len(sent) - 1) : sent[i][2] # "items"
  /\ dpc = "search" =>
       /\ qi = Len(sent) + 1
       /\ qi <= Len(queries)
       /\ \A i \in 1..Len(sent) : sent[i][2] # "items"
  /\ (dpc # "search" /\ sent # <<>>) =>
       \/ sent[Len(sent)][2] = "items"
       \/ Len(sent) = Len(queries)

\* a line with four queries is finished: the first search raised, the second
\* returned a track, and the last two queries were never sent
C6_Witness ==
  /\ dpc = "read"
  /\ Len(queries) = 4
  /\ Len(sent) = 2
  /\ sent[1][2] = "error"
  /\ sent[2][2] = "items"
  /\ found_tracks # <<>>

\* the lines of the input file as main sees them: line.strip()
SongLines == [i \in 1..Len(ReadLines(file)) |-> Strip(ReadLines(file)[i])]

\* the places of the input lines that are not blank and whose title is no
\* placeholder
Searchable ==
  {i \in 1..Len(SongLines) :
     SongLines[i] # <<>> /\ ~is_track_number(parse_song_line(SongLines[i])[1])}

\* the places of the input lines a search returned a track for
MatchedAt == {matched[k][1] : k \in 1..Len(matched)}

\* the tracks the searches returned, in the order of the lines
MatchedIds == [k \in 1..Len(matched) |-> matched[k][2]]

\* C12: after a run that ended without error, the tracks added to the
\* playlist are those found for the searchable lines (non-blank, title no
\* placeholder), one per line and in line order, and the rewritten file
\* holds exactly the other searchable lines, stripped, in their original
\* order; blank and placeholder lines are neither added nor written.  The
\* file is written only when every add batch has been sent: until the run
\* is done, and after a failed add, the file is as it was.
C12_AddedOrWritten ==
  /\ (dpc = "done") =>
       /\ MatchedAt \subseteq Searchable
       /\ Len(matched) = Cardinality(MatchedAt)
       /\ \A k \in 1..(Len(matched) - 1) : matched[k][1] < matched[k + 1][1]
       /\ Flatten(batches) = MatchedIds
       /\ TextLines(written) =
            LinesAt(SongLines, Searchable \ MatchedAt, Len(SongLines))
       /\ add_at >= Len(found_tracks)
  /\ (dpc # "done") => (written = file)

\* a finished run on a file of two searchable lines: a track was found for
\* one and added, the other is the one line of the rewritten file
C12_Witness ==
  /\ dpc = "done"
  /\ Len(SongLines) = 2
  /\ Searchable = {1, 2}
  /\ Cardinality(MatchedAt) = 1
  /\ Len(Flatten(batches)) = 1
  /\ Len(TextLines(written)) = 1
  /\ written # file

(***************************************************************************)
(* SpecBatch: one call of add_tracks_to_playlist or of                     *)
(* remove_tracks_from_playlist on a list of track ids.  add_at is the loop *)
(* variable i of range(0, len(track_ids), chunk_size), batches the chunks  *)
(* passed to the catalog so far, in order.                                 *)
(***************************************************************************)
\* the longest list of track ids
MaxTrackIds == 201

\* the ids of a list: all different, or the same few ids again and again
IdShapes == {"distinct", "repeated"}

\* the list of n track ids of a shape
TrackIdList(n, shape) ==
  [k \in 1..n |-> IF shape = "distinct" THEN k ELSE k % 3]

InitBatch ==
  /\ called = {}
  /\ command \in {"add_tracks_to_playlist", "remove_tracks_from_playlist"}
  /\ \E n \in 0..MaxTrackIds : \E shape \in IdShapes :
       track_ids = TrackIdList(n, shape)
  /\ add_at = 0
  /\ batches = <<>>
  /\ dpc = "loop"
  /\ text = <<>> /\ normalized = <<>> /\ renormalized = <<>> /\ cleaned = <<>>
  /\ title = <<>> /\ artists = <<>> /\ queries = <<>>
  /\ line = <<>> /\ parsed = <<>> /\ placeholder = FALSE
  /\ file = <<>> /\ playlist = <<>> /\ playlist_titles = {} /\ pos = 1
  /\ seen = {} /\ unique_lines = <<>> /\ kept_lines = <<>> /\ removed_count = 0
  /\ written = <<>> /\ fpc = ""
  /\ qi = 1 /\ track_id = None /\ sent = <<>> /\ found_tracks = <<>>
  /\ not_found_tracks = <<>> /\ matched = <<>> /\ tracks_to_remove = <<>>

notBatchVars ==
  <<called, normVars, queryVars, parseVars, fileVars, qi, track_id, sent,
    found_tracks, not_found_tracks, matched, track_ids, tracks_to_remove>>

\* add_tracks_to_playlist: one turn of the loop; a call that raises ends
\* the function
AddTracksChunk ==
  /\ dpc = "loop"
  /\ command = "add_tracks_to_playlist"
  /\ add_at < Len(track_ids)
  /\ \E raises \in BOOLEAN :
       IF raises
         THEN dpc' = "failed" /\ UNCHANGED <<batches, add_at>>
         ELSE /\ batches' = Append(batches, Chunk(track_ids, add_at))
              /\ add_at' = add_at + ChunkSize
              /\ UNCHANGED dpc
  /\ UNCHANGED notBatchVars

\* remove_tracks_from_playlist: one turn of the loop
RemoveTracksChunk ==
  /\ dpc = "loop"
  /\ command = "remove_tracks_from_playlist"
  /\ add_at < Len(track_ids)
  /\ \E raises \in BOOLEAN :
       IF raises
         THEN dpc' = "failed" /\ UNCHANGED <<batches, add_at>>
         ELSE /\ batches' = Append(batches, RemoveChunk(track_ids, add_at))
              /\ add_at' = add_at + RemoveChunkSize
              /\ UNCHANGED dpc
  /\ UNCHANGED notBatchVars

\* the range is exhausted: the function returns
BatchReturn ==
  /\ dpc = "loop"
  /\ add_at >= Len(track_ids)
  /\ dpc' = "returned"
  /\ UNCHANGED <<batches, add_at>>
  /\ UNCHANGED notBatchVars

NextBatch == AddTracksChunk \/ RemoveTracksChunk \/ BatchReturn

SpecBatch == InitBatch /\ [][NextBatch]_vars

\* the smaller of two numbers
Min(a, b) == IF a < b THEN a ELSE b

\* C11: the batches sent so far are, one after the other, exactly the first
\* ids of the input list in input order (so every id sent is in exactly one
\* batch, at its place), each batch has between 1 and 100 items, an empty
\* input list sends no batch, and when the function returns the batches
\* are the whole input list.
C11_Batches ==
  /\ Flatten(batches) = SubSeq(track_ids, 1, Min(add_at, Len(track_ids)))
  /\ \A b \in 1..Len(batches) :
       /\ Len(batches[b]) >= 1
       /\ Len(batches[b]) <= 100
       /\ batches[b] = SubSeq(track_ids, 100 * (b - 1) + 1,
                               100 * (b - 1) + Len(batches[b]))
       /\ b < Len(batches) => Len(batches[b]) = 100
  /\ (track_ids = <<>>) => (batches = <<>>)
  /\ (dpc = "returned") => (Flatten(batches) = track_ids)

\* a call on 201 ids has returned after three batches of 100, 100 and 1
C11_Witness ==
  /\ dpc = "returned"
  /\ Len(track_ids) = 201
  /\ Len(batches) = 3
  /\ Len(batches[3]) = 1

(***************************************************************************)
(* SpecRemove: get_tracks_to_remove of remove_artists_from_playlist on the *)
(* entries of a playlist.  pos is the entry the loop is at.                *)
(***************************************************************************)
\* r'Track\s+\d+' with re.IGNORECASE matches s at the 1-based place i
TrackNumberSearchAt(s, i) ==
  /\ StartsAt(Lower(s), w_track, i)
  /\ \E j \in (i + Len(w_track))..(Len(s) - 1) :
       /\ \A k \in (i + Len(w_track))..j : IsSpace(s[k])
       /\ IsDigit(s[j + 1])

\* pattern.search(track_name): the pattern matches at some place
TrackNumberSearch(s) == \E i \in 1..Len(s) : TrackNumberSearchAt(s, i)

\* the longest track name, in vocabulary items
MaxNameTokens == 4

\* the longest playlist
MaxPlaylist == 2

NameVocabulary == {w_Track, w_track, w_x, w_1, w_space}

\* the track names of the playlists
TrackNames == Texts(NameVocabulary, MaxNameTokens)

\* the names of the entries that follow the first one
PlainTrackNames == {w_Track \o w_space \o w_1, w_x}

\* the id of an entry whose track is None
NoId == 0

\* an entry whose track is None
NoTrackEntry == [track |-> FALSE, name |-> <<>>]

\* an entry with a track of a name
NamedEntry(n) == [track |-> TRUE, name |-> n]

\* the entry at place i of a playlist: the ids of the tracks are their places
PlaylistEntry(entry, i) ==
  [track |-> entry.track, name |-> entry.name,
   id |-> IF entry.track THEN i ELSE NoId]

\* the playlists: any first entry, then at most MaxPlaylist - 1 plain ones
RemovePlaylists ==
  {<<>>} \cup
  {[i \in 1..(1 + Len(rest)) |->
      PlaylistEntry(IF i = 1 THEN first ELSE rest[i - 1], i)] :
     first \in {NamedEntry(n) : n \in TrackNames} \cup {NoTrackEntry},
     rest \in UNION {[1..k -> {NamedEntry(n) : n \in PlainTrackNames}
                                \cup {NoTrackEntry}] :
                       k \in 0..(MaxPlaylist - 1)}}

InitRemove ==
  /\ called = {}
  /\ playlist \in RemovePlaylists
  /\ pos = 1
  /\ tracks_to_remove = <<>>
  /\ dpc = "loop"
  /\ text = <<>> /\ normalized = <<>> /\ renormalized = <<>> /\ cleaned = <<>>
  /\ title = <<>> /\ artists = <<>> /\ queries = <<>>
  /\ line = <<>> /\ parsed = <<<<>>, <<>>>> /\ placeholder = FALSE
  /\ command = "" /\ file = <<>> /\ playlist_titles = {}
  /\ seen = {} /\ unique_lines = <<>> /\ kept_lines = <<>> /\ removed_count = 0
  /\ written = <<>> /\ fpc = ""
  /\ qi = 1 /\ track_id = None /\ sent = <<>> /\ found_tracks = <<>>
  /\ not_found_tracks = <<>> /\ add_at = 0 /\ batches = <<>>
  /\ matched = <<>> /\ track_ids = <<>>

notRemoveVars ==
  <<called, normVars, queryVars, parseVars, command, file, playlist,
    playlist_titles, seen, unique_lines, kept_lines, removed_count, written,
    fpc, qi, track_id, sent, found_tracks, not_found_tracks, add_at, batches,
    matched, track_ids>>

\* get_tracks_to_remove: one turn of the loop over the entries
GetTracksToRemoveEntry ==
  /\ dpc = "loop"
  /\ pos <= Len(playlist)
  /\ LET track == playlist[pos]
     IN tracks_to_remove' =
          (IF track.track /\ TrackNumberSearch(track.name)
             THEN Append(tracks_to_remove, track.id)
             ELSE tracks_to_remove)
  /\ pos' = pos + 1
  /\ UNCHANGED dpc
  /\ UNCHANGED notRemoveVars

\* get_tracks_to_remove: return tracks_to_remove
GetTracksToRemoveReturn ==
  /\ dpc = "loop"
  /\ pos > Len(playlist)
  /\ dpc' = "returned"
  /\ UNCHANGED <<pos, tracks_to_remove>>
  /\ UNCHANGED notRemoveVars

NextRemove == GetTracksToRemoveEntry \/ GetTracksToRemoveReturn

SpecRemove == InitRemove /\ [][NextRemove]_vars

\* the entries of the playlist whose id is in the list for removal
SelectedEntries ==
  {i \in 1..Len(playlist) :
     \E k \in 1..Len(tracks_to_remove) : tracks_to_remove[k] = playlist[i].id}

\* C13: every id in the list for removal is the id of an entry that has a
\* track whose name is a placeholder title as is_track_number decides it
\* (so a name that has 'track <digits>' inside a longer title is not
\* selected), and no entry without a track is selected.
C13_OnlyPlaceholders ==
  /\ \A k \in 1..Len(tracks_to_remove) : tracks_to_remove[k] # NoId
  /\ \A i \in SelectedEntries :
       /\ playlist[i].track
       /\ is_track_number(playlist[i].name)

====
